---- MODULE Spec2Model ----
(***************************************************************************)
(* A model of discord_demo.py: the on_message handler of the Discord bot,  *)
(* its help command, and the chunking loop that splits a long answer.      *)
(*                                                                         *)
(* Strings are sequences of one-character strings.  Every handler is one   *)
(* invocation of the coroutine on_message; an action runs a handler from   *)
(* one await to the next.                                                  *)
(***************************************************************************)
EXTENDS Integers, Sequences, FiniteSets, TLC

\* The per-message limit of the transport.  The program's value is 2000
\* (lines 130, 140, 146, 149); the model checks the same code with a small
\* limit so that texts longer than the limit can be enumerated.
MessageLimit == 4

\* Longest generated text enumerated by ChunkSpec.
MaxTextLen == 6

\* The concurrent invocations of on_message.
Handlers == {1, 2}

----------------------------------------------------------------------------
(* Strings *)

SP == " "
NL == "\n"
DOT == "."

\* The characters Python's str.strip() removes, among those of the model.
Whitespace == {SP, NL}

\* The characters of a generated text.
Chars == {"a", DOT, SP, NL}

\* c repeated n times.
Rep(c, n) == [i \in 1..n |-> c]

\* Whether s reads t from position i on.
MatchesAt(s, t, i) ==
    /\ i + Len(t) - 1 <= Len(s)
    /\ SubSeq(s, i, i + Len(t) - 1) = t

\* The sequences of a list, concatenated in order.
RECURSIVE Concat(_)
Concat(texts) ==
    IF texts = << >> THEN << >> ELSE Head(texts) \o Concat(Tail(texts))

\* str.startswith
StartsWith(s, t) == MatchesAt(s, t, 1)

\* str.split(sep): the pieces between the non-overlapping occurrences of sep,
\* found left to right; empty pieces are kept, and a text without sep is one
\* piece.
RECURSIVE SplitFrom(_, _, _, _)
SplitFrom(s, sep, i, piece) ==
    IF i > Len(s) THEN << piece >>
    ELSE IF MatchesAt(s, sep, i)
         THEN << piece >> \o SplitFrom(s, sep, i + Len(sep), << >>)
         ELSE SplitFrom(s, sep, i + 1, Append(piece, s[i]))

Split(s, sep) == SplitFrom(s, sep, 1, << >>)

\* str.replace(old, new): every non-overlapping occurrence, left to right.
RECURSIVE ReplaceFrom(_, _, _, _)
ReplaceFrom(s, old, new, i) ==
    IF i > Len(s) THEN << >>
    ELSE IF MatchesAt(s, old, i)
         THEN new \o ReplaceFrom(s, old, new, i + Len(old))
         ELSE << s[i] >> \o ReplaceFrom(s, old, new, i + 1)

Replace(s, old, new) == ReplaceFrom(s, old, new, 1)

RECURSIVE LStrip(_)
LStrip(s) ==
    IF s = << >> THEN s
    ELSE IF s[1] \in Whitespace THEN LStrip(Tail(s)) ELSE s

RECURSIVE RStrip(_)
RStrip(s) ==
    IF s = << >> THEN s
    ELSE IF s[Len(s)] \in Whitespace THEN RStrip(SubSeq(s, 1, Len(s) - 1)) ELSE s

\* str.strip()
Strip(s) == RStrip(LStrip(s))

----------------------------------------------------------------------------
(* The chunking loop of on_message, lines 132-162.  The loop's state is    *)
(* the list chunks and the buffer current_chunk.                           *)

EmptyLoop == [chunks |-> << >>, current_chunk |-> << >>]

\* para.split('. '): the sentence boundary is dropped with its '.'.
SentencesWithoutDot(para) == Split(Replace(para, << DOT, SP >>, << NL >>), << NL >>)

\* para.replace('. ', '.\n').split('\n')
Sentences(para) == Split(Replace(para, << DOT, SP >>, << DOT, NL >>), << NL >>)

\* The iteration with a hard cut: a sentence longer than the limit is cut to
\* the limit's length.
SentenceStepTruncating(st, sentence) ==
    IF Len(st.current_chunk) + Len(sentence) + 1 > MessageLimit
    THEN [chunks |-> IF st.current_chunk # << >>
                     THEN Append(st.chunks, Strip(st.current_chunk))
                     ELSE st.chunks,
          current_chunk |-> IF Len(sentence) > MessageLimit
                            THEN SubSeq(sentence, 1, MessageLimit)
                            ELSE sentence \o << SP >>]
    ELSE [st EXCEPT !.current_chunk = @ \o sentence \o << SP >>]

\* One iteration of `for sentence in sentences`.
SentenceStep(st, sentence) ==
    IF Len(st.current_chunk) + Len(sentence) + 1 > MessageLimit
    THEN [chunks |-> IF st.current_chunk # << >>
                     THEN Append(st.chunks, Strip(st.current_chunk))
                     ELSE st.chunks,
          current_chunk |-> sentence \o << SP >>]
    ELSE [st EXCEPT !.current_chunk = @ \o sentence \o << SP >>]

RECURSIVE SentenceLoop(_, _)
SentenceLoop(st, sentences) ==
    IF sentences = << >> THEN st
    ELSE SentenceLoop(SentenceStep(st, Head(sentences)), Tail(sentences))

\* The flush without strip(): the buffer is appended with its separator.
ParagraphFlushUnstripped(st) ==
    IF st.current_chunk # << >>
    THEN [chunks |-> Append(st.chunks, st.current_chunk),
          current_chunk |-> << >>]
    ELSE st

\* The flush at the head of an iteration of `for para in paragraphs`.
ParagraphFlush(st) ==
    IF st.current_chunk # << >>
    THEN [chunks |-> Append(st.chunks, Strip(st.current_chunk)),
          current_chunk |-> << >>]
    ELSE st

\* One iteration of `for para in paragraphs`.
ParagraphStep(st, para) ==
    IF Len(st.current_chunk) + Len(para) + 2 > MessageLimit
    THEN IF Len(para) > MessageLimit
         THEN SentenceLoop(ParagraphFlush(st), Sentences(para))
         ELSE [ParagraphFlush(st) EXCEPT !.current_chunk = para \o << NL, NL >>]
    ELSE [st EXCEPT !.current_chunk = @ \o para \o << NL, NL >>]

RECURSIVE ParagraphLoop(_, _)
ParagraphLoop(st, paragraphs) ==
    IF paragraphs = << >> THEN st
    ELSE ParagraphLoop(ParagraphStep(st, Head(paragraphs)), Tail(paragraphs))

\* `if current_chunk.strip(): chunks.append(current_chunk.strip())`
FinalFlush(st) ==
    IF Strip(st.current_chunk) # << >>
    THEN Append(st.chunks, Strip(st.current_chunk))
    ELSE st.chunks

\* The list chunks built for a text longer than the limit.
SplitIntoChunks(text) ==
    FinalFlush(ParagraphLoop(EmptyLoop, Split(text, << NL, NL >>)))

----------------------------------------------------------------------------
(* Inbound messages *)

\* The bot's own identity (bot.user), a human user, and another bot account.
Self == "self"
Authors == {Self, "user", "otherbot"}

\* message.author.bot, the test of process_commands.
IsBot(author) == author \in {Self, "otherbot"}

\* "$question ", the prefix tested at line 81 and the bot's command_prefix.
Prefix == << "$", "q", "u", "e", "s", "t", "i", "o", "n", SP >>

HelpWord == << "h", "e", "l", "p" >>

\* The contents of the inbound messages of Spec: the prefix followed by an
\* argument, and contents that do not start with the prefix.
Arguments ==
    { << >>, << SP, SP >>, << "a" >>, HelpWord, << "H", "E", "L", "P" >>,
      << SP >> \o HelpWord, HelpWord \o << SP, "a" >> }

Contents ==
    { Prefix \o a : a \in Arguments }
        \cup { << "a" >>, HelpWord, SubSeq(Prefix, 1, Len(Prefix) - 1) \o HelpWord }

Messages == [author : Authors, content : Contents]

\* Question without the strip(): a whitespace-only argument counts as a
\* question.
QuestionUnstripped(content) == SubSeq(content, Len(Prefix) + 1, Len(content))

\* message.content[len("$question "):].strip()
Question(content) == Strip(SubSeq(content, Len(Prefix) + 1, Len(content)))

----------------------------------------------------------------------------
(* The generation call *)

\* str(e) of the errors the generation call raises.
ErrorDetails == {"network", "quota"}

\* chat.send_message either raises, or returns a response that has parts
\* (and a text) or has none (a blocked response, with or without candidates).
Raises(detail) ==
    [raises |-> TRUE, detail |-> detail, parts |-> FALSE, candidates |-> FALSE,
     text |-> << >>]

Blocked(candidates) ==
    [raises |-> FALSE, detail |-> "", parts |-> FALSE, candidates |-> candidates,
     text |-> << >>]

Returns(text) ==
    [raises |-> FALSE, detail |-> "", parts |-> TRUE, candidates |-> TRUE,
     text |-> text]

\* The generated texts of Spec: short ones, one of exactly the limit, and
\* texts longer than the limit of each shape the chunking loop tells apart.
SampleTexts ==
    { << >>,
      << "a" >>,
      Rep("a", MessageLimit - 1) \o << SP >>,
      Rep("a", MessageLimit),
      Rep("a", MessageLimit + 1),
      Rep(SP, MessageLimit + 1),
      << "a", NL, NL >> \o Rep("a", MessageLimit),
      << NL, NL >> \o Rep("a", MessageLimit),
      Rep("a", MessageLimit - 1) \o << DOT, SP, "a" >>,
      Rep("a", MessageLimit + 1) \o << NL, NL, "a" >> }

SampleResults ==
    { Raises(d) : d \in ErrorDetails }
        \cup { Blocked(c) : c \in BOOLEAN }
        \cup { Returns(t) : t \in SampleTexts }

\* Every text of at most MaxTextLen characters.
AllTexts == UNION { [1..n -> Chars] : n \in 0..MaxTextLen }

\* Longer texts: two paragraphs of the limit's length; a sentence longer than
\* the limit after a short line, and before a '. ' boundary; a paragraph
\* longer than the limit whose last line is followed by a short paragraph.
LongTexts ==
    { Rep("a", MessageLimit) \o << NL, NL >> \o Rep("a", MessageLimit),
      << "a", NL >> \o Rep("a", MessageLimit + 1),
      Rep("a", MessageLimit + 1) \o << DOT, SP, "a" >>,
      Rep("a", MessageLimit + 1) \o << NL, "a", NL, NL, "a" >> }

\* The texts the chunking loop is checked on.
ChunkTexts == AllTexts \cup LongTexts

----------------------------------------------------------------------------
(* Outbound messages *)

Outbound(kind, text, detail) == [kind |-> kind, text |-> text, detail |-> detail]

\* "Please ask a question after `$question`!"
UsagePrompt == Outbound("usage", << >>, "")

\* "Sorry, I couldn't generate a response. ..."
Apology == Outbound("apology", << >>, "")

\* f"Sorry, I encountered an error: {str(e)}"
ErrorMessage(detail) == Outbound("error", << >>, detail)

\* help_text of help_command
HelpText == Outbound("help", << >>, "")

\* The response text, or one chunk of it.
AnswerMessage(text) == Outbound("answer", text, "")

\* "Discord has a 2000 character limit": the transport refuses a longer text
\* and channel.send raises.  The fixed texts and the error message are taken
\* to fit.
TransportAccepts(text) == Len(text) <= MessageLimit

\* str(e) of the error channel.send raises for a refused text.
SendRejected == "send rejected"

----------------------------------------------------------------------------
(* The state *)

VARIABLES
    env,        \* the environment of the process: TOKEN, GEMINI_API_KEY, the prompt file
    boot,       \* the statement the module's start-up code has reached
    exitStatus, \* << >> while the process runs, << n >> once it has exited with n
    errors,     \* the errors logged by the start-up code and by main, in order
    genModel,   \* the generation model of line 48: none, created
    gateway,    \* bot.run: none before it is called, then connected or failed
    pc,        \* pc[h]: the await handler h is suspended at
    msg,       \* msg[h]: the inbound message of handler h, << >> before it arrives
    typing,    \* typing[h]: the typing indicator of handler h: never, on, off
    calls,     \* calls[h]: the generation calls handler h has issued
    resp,      \* resp[h]: what the generation call returned or raised, << >> before
    answer,    \* answer[h]: the texts of the answer: response_text, or chunks
    nextSend,  \* nextSend[h]: the index in answer[h] of the send being awaited
    err,       \* err[h]: str(e) of the exception caught at line 172
    sent       \* sent[h]: the outbound messages delivered for handler h, in order

startVars == << env, boot, exitStatus, errors, genModel, gateway >>

handlerVars == << pc, msg, typing, calls, resp, answer, nextSend, err, sent >>

vars == << startVars, handlerVars >>

\* No handler has been called yet.
HandlersInit ==
    /\ pc = [h \in Handlers |-> "idle"]
    /\ msg = [h \in Handlers |-> << >>]
    /\ typing = [h \in Handlers |-> "never"]
    /\ calls = [h \in Handlers |-> << >>]
    /\ resp = [h \in Handlers |-> << >>]
    /\ answer = [h \in Handlers |-> << >>]
    /\ nextSend = [h \in Handlers |-> 1]
    /\ err = [h \in Handlers |-> ""]
    /\ sent = [h \in Handlers |-> << >>]

\* What os.getenv gives for a variable: None, an empty string, a value.
EnvValues == {"unset", "empty", "set"}

\* The file system_prompt.txt: absent, present but not readable, readable.
FileStates == {"missing", "unreadable", "readable"}

Environments == [token : EnvValues, key : EnvValues, prompt : FileStates]

\* The bot is running: the start-up code found both secrets and the prompt
\* file, created the model, and bot.run is connected to the gateway.
Init ==
    /\ env = [token |-> "set", key |-> "set", prompt |-> "readable"]
    /\ boot = "running"
    /\ exitStatus = << >>
    /\ errors = << >>
    /\ genModel = "created"
    /\ gateway = "connected"
    /\ HandlersInit

\* The process starts, in any environment.
StartInit ==
    /\ env \in Environments
    /\ boot = "check_token"
    /\ exitStatus = << >>
    /\ errors = << >>
    /\ genModel = "none"
    /\ gateway = "none"
    /\ HandlersInit

----------------------------------------------------------------------------
(* The start-up code of the module, lines 20-63, and main, lines 195-205 *)

\* `not X` for a value of os.getenv.
Missing(value) == value \in {"unset", "empty"}

\* sys.exit(1) after logger.error(what).
ExitWithError(what) ==
    /\ errors' = Append(errors, what)
    /\ exitStatus' = << 1 >>
    /\ boot' = "exited"

\* Lines 23-25.
AfterTokenCheck(token) == IF Missing(token) THEN "exit" ELSE "check_key"

CheckToken ==
    /\ boot = "check_token"
    /\ IF AfterTokenCheck(env.token) = "exit"
       THEN ExitWithError("TOKEN not set")
       ELSE /\ boot' = AfterTokenCheck(env.token)
            /\ UNCHANGED << errors, exitStatus >>
    /\ UNCHANGED << env, genModel, gateway, handlerVars >>

\* The start-up code without lines 27-29.
KeyUnchecked(key) == "read_prompt"

\* Lines 27-32.
AfterKeyCheck(key) == IF Missing(key) THEN "exit" ELSE "read_prompt"

CheckKey ==
    /\ boot = "check_key"
    /\ IF AfterKeyCheck(env.key) = "exit"
       THEN ExitWithError("GEMINI_API_KEY not set")
       ELSE /\ boot' = AfterKeyCheck(env.key)
            /\ UNCHANGED << errors, exitStatus >>
    /\ UNCHANGED << env, genModel, gateway, handlerVars >>

\* Lines 36-45: open() raises FileNotFoundError for an absent file and
\* another exception for one that cannot be read; both handlers log and exit.
ReadPrompt ==
    /\ boot = "read_prompt"
    /\ CASE env.prompt = "readable" ->
                /\ boot' = "create_model"
                /\ UNCHANGED << errors, exitStatus >>
         [] env.prompt = "missing" -> ExitWithError("system prompt file not found")
         [] env.prompt = "unreadable" -> ExitWithError("error reading system prompt file")
    /\ UNCHANGED << env, genModel, gateway, handlerVars >>

\* Lines 48-63: the model and the bot are created.
CreateModel ==
    /\ boot = "create_model"
    /\ genModel' = "created"
    /\ boot' = "main"
    /\ UNCHANGED << env, exitStatus, errors, gateway, handlerVars >>

\* Lines 195-205: bot.run connects to the gateway and serves, or raises,
\* which main logs before the process ends.
BotRun(outcome) ==
    /\ boot = "main"
    /\ gateway' = outcome
    /\ IF outcome = "connected"
       THEN /\ boot' = "running"
            /\ UNCHANGED << errors, exitStatus >>
       ELSE /\ boot' = "exited"
            /\ errors' = Append(errors, "Bot crashed")
            /\ exitStatus' = << 0 >>
    /\ UNCHANGED << env, genModel, handlerVars >>

Startup ==
    \/ CheckToken
    \/ CheckKey
    \/ ReadPrompt
    \/ CreateModel
    \/ \E outcome \in {"connected", "failed"} : BotRun(outcome)

----------------------------------------------------------------------------
(* The event loop *)

\* The awaits at which a handler holds the event loop.  There are none: the
\* sends and the typing indicator are awaited, and line 97 hands the
\* generation call to a worker thread (asyncio.to_thread) and awaits it.
Blocking == {}

\* The generation call made on the event loop's own thread: the loop runs
\* nothing else until it returns.
SchedulableAfterCalls(h) ==
    \A g \in Handlers \ {h} : pc[g] \notin {"generating"}

\* The event loop can run handler h: no other handler holds the loop.
Schedulable(h) ==
    \A g \in Handlers \ {h} : pc[g] \notin Blocking

----------------------------------------------------------------------------
(* on_message, lines 75-177 *)

\* Dispatch without the test of line 77: the bot's own messages are handled
\* like any other.
DispatchAnyAuthor(m) ==
    IF StartsWith(m.content, Prefix)
    THEN IF Question(m.content) = << >> THEN "send_usage" ELSE "typing"
    ELSE "process_commands"

\* Lines 77-90, from the call of on_message to its first await: the await
\* the handler suspends at, or done when on_message returns at line 78.
Dispatch(m) ==
    IF m.author = Self THEN "done"
    ELSE IF StartsWith(m.content, Prefix)
         THEN IF Question(m.content) = << >> THEN "send_usage" ELSE "typing"
         ELSE "process_commands"

\* The gateway delivers message m and on_message runs to its first await.
OnMessage(h, m) ==
    /\ Schedulable(h)
    /\ gateway = "connected"
    /\ pc[h] = "idle"
    /\ msg' = [msg EXCEPT ![h] = << m >>]
    /\ pc' = [pc EXCEPT ![h] = Dispatch(m)]
    /\ UNCHANGED << typing, calls, resp, answer, nextSend, err, sent >>
    /\ UNCHANGED startVars

\* Line 86: the send of the usage prompt completes; line 87 returns.
UsageSent(h) ==
    /\ Schedulable(h)
    /\ pc[h] = "send_usage"
    /\ sent' = [sent EXCEPT ![h] = Append(@, UsagePrompt)]
    /\ pc' = [pc EXCEPT ![h] = "done"]
    /\ UNCHANGED << msg, typing, calls, resp, answer, nextSend, err >>
    /\ UNCHANGED startVars

\* The call made on one chat shared by all handlers: the chat's history is
\* the questions asked so far.
GenerationCallOnSharedChat(content) ==
    [question |-> Question(content),
     history |-> [k \in 1 .. Len(Concat(calls)) |-> Concat(calls)[k].question]]

\* model.start_chat(history=[]) and the call handed to asyncio.to_thread.
GenerationCall(content) == [question |-> Question(content), history |-> << >>]

\* Lines 90-106: the typing indicator is entered, a chat is started and the
\* generation call is handed to a worker thread; the handler awaits it.
TypingStarts(h) ==
    /\ Schedulable(h)
    /\ pc[h] = "typing"
    /\ typing' = [typing EXCEPT ![h] = "on"]
    /\ calls' = [calls EXCEPT ![h] = Append(@, GenerationCall(msg[h][1].content))]
    /\ pc' = [pc EXCEPT ![h] = "generating"]
    /\ UNCHANGED << msg, resp, answer, nextSend, err, sent >>
    /\ UNCHANGED startVars

\* IsBlocked testing response.candidates instead of response.parts.
IsBlockedNoCandidates(r) == ~r.candidates

\* Line 109: `if not response.parts`
IsBlocked(r) == ~r.parts

\* FormatResponse with `>=` for `>`: a text of exactly the limit is chunked.
FormatResponseAtLimit(text) ==
    IF Len(text) >= MessageLimit THEN SplitIntoChunks(text) ELSE << text >>

\* Lines 130-168: the texts to send for response_text.
FormatResponse(text) ==
    IF Len(text) > MessageLimit THEN SplitIntoChunks(text) ELSE << text >>

\* Caught without the except clause: the exception leaves on_message.
CaughtNowhere(detail) == [pc |-> "raised", err |-> detail]

\* Caught with a retry: the handler goes back to the generation call.
CaughtRetry(detail) == [pc |-> "typing", err |-> detail]

\* Lines 172-174: an exception raised in the try block is caught; the handler
\* goes on to send the error message.
Caught(detail) == [pc |-> "send_error", err |-> detail]

\* Lines 97-168, from the return of the generation call to the next await.
\* A chunk list that is empty leaves nothing to send: the loop of line 165
\* ends at once and the handler leaves the try block.
AfterGeneration(r) ==
    IF r.raises THEN Caught(r.detail)
    ELSE IF IsBlocked(r) THEN [pc |-> "send_apology", err |-> ""]
    ELSE IF FormatResponse(r.text) = << >>
         THEN [pc |-> "process_commands", err |-> ""]
         ELSE [pc |-> "send_answer", err |-> ""]

\* The typing indicator once the handler is at `at`: leaving the block of
\* line 90 (to line 177, or by a return) ends it.
TypingAt(at, was) == IF at \in {"process_commands", "done"} THEN "off" ELSE was

\* The generation call of handler h returns r, or raises.
GenerationReturns(h, r) ==
    /\ pc[h] = "generating"
    /\ resp' = [resp EXCEPT ![h] = << r >>]
    /\ pc' = [pc EXCEPT ![h] = AfterGeneration(r).pc]
    /\ err' = [err EXCEPT ![h] = AfterGeneration(r).err]
    /\ answer' = [answer EXCEPT ![h] =
                    IF AfterGeneration(r).pc = "send_answer"
                    THEN FormatResponse(r.text) ELSE << >>]
    /\ typing' = [typing EXCEPT ![h] = TypingAt(AfterGeneration(r).pc, @)]
    /\ UNCHANGED << msg, calls, nextSend, sent >>
    /\ UNCHANGED startVars

\* The generation call of handler h ends in one of the given ways.
GenerationEnds(h, results) ==
    /\ Schedulable(h)
    /\ pc[h] = "generating"
    /\ \E r \in results : GenerationReturns(h, r)

\* Lines 120-124: the send of the apology completes; line 124 returns.
ApologySent(h) ==
    /\ Schedulable(h)
    /\ pc[h] = "send_apology"
    /\ sent' = [sent EXCEPT ![h] = Append(@, Apology)]
    /\ pc' = [pc EXCEPT ![h] = "done"]
    /\ typing' = [typing EXCEPT ![h] = TypingAt("done", @)]
    /\ UNCHANGED << msg, calls, resp, answer, nextSend, err >>
    /\ UNCHANGED startVars

\* Lines 165-168: the awaited send of answer[h][nextSend[h]] completes.  An
\* accepted text is delivered and the handler awaits the next send, or leaves
\* the try block after the last one; a refused text makes channel.send raise,
\* which line 172 catches.
AfterSend(h) ==
    IF ~TransportAccepts(answer[h][nextSend[h]]) THEN Caught(SendRejected)
    ELSE IF nextSend[h] < Len(answer[h]) THEN [pc |-> "send_answer", err |-> ""]
    ELSE [pc |-> "process_commands", err |-> ""]

AnswerSendCompletes(h) ==
    /\ Schedulable(h)
    /\ pc[h] = "send_answer"
    /\ pc' = [pc EXCEPT ![h] = AfterSend(h).pc]
    /\ err' = [err EXCEPT ![h] = AfterSend(h).err]
    /\ IF TransportAccepts(answer[h][nextSend[h]])
       THEN /\ sent' = [sent EXCEPT ![h] =
                          Append(@, AnswerMessage(answer[h][nextSend[h]]))]
            /\ nextSend' = [nextSend EXCEPT ![h] = @ + 1]
       ELSE UNCHANGED << sent, nextSend >>
    /\ typing' = [typing EXCEPT ![h] = TypingAt(AfterSend(h).pc, @)]
    /\ UNCHANGED << msg, calls, resp, answer >>
    /\ UNCHANGED startVars

\* Line 174: the send of the error message completes; the handler leaves the
\* except block and goes on to line 177.
ErrorSent(h) ==
    /\ Schedulable(h)
    /\ pc[h] = "send_error"
    /\ sent' = [sent EXCEPT ![h] = Append(@, ErrorMessage(err[h]))]
    /\ pc' = [pc EXCEPT ![h] = "process_commands"]
    /\ typing' = [typing EXCEPT ![h] = TypingAt("process_commands", @)]
    /\ UNCHANGED << msg, calls, resp, answer, nextSend, err >>
    /\ UNCHANGED startVars

----------------------------------------------------------------------------
(* bot.process_commands(message), line 177, with the bot of line 63 *)

\* str.lower() on the letters of the model.
LowerChar(c) ==
    CASE c = "H" -> "h" [] c = "E" -> "e" [] c = "L" -> "l" [] c = "P" -> "p"
      [] OTHER -> c

Lower(s) == [i \in 1..Len(s) |-> LowerChar(s[i])]

\* The word a text starts with: its characters up to the first whitespace.
RECURSIVE GetWord(_)
GetWord(s) ==
    IF s = << >> THEN << >>
    ELSE IF s[1] \in Whitespace THEN << >>
         ELSE << s[1] >> \o GetWord(Tail(s))

\* The command a message invokes: the word that follows command_prefix,
\* looked up without regard to case (case_insensitive=True) among the
\* commands of the bot, of which help (line 180) is the only one.
InvokesHelp(content) ==
    /\ StartsWith(content, Prefix)
    /\ Lower(GetWord(SubSeq(content, Len(Prefix) + 1, Len(content)))) = HelpWord

\* process_commands ignores the messages of bot accounts, and invokes the
\* command the message names, if any.
AfterProcessCommands(m) ==
    IF ~IsBot(m.author) /\ InvokesHelp(m.content) THEN "send_help" ELSE "done"

ProcessCommands(h) ==
    /\ Schedulable(h)
    /\ pc[h] = "process_commands"
    /\ pc' = [pc EXCEPT ![h] = AfterProcessCommands(msg[h][1])]
    /\ UNCHANGED << msg, typing, calls, resp, answer, nextSend, err, sent >>
    /\ UNCHANGED startVars

\* help_command, lines 180-192: the send of the help text completes.
HelpSent(h) ==
    /\ Schedulable(h)
    /\ pc[h] = "send_help"
    /\ sent' = [sent EXCEPT ![h] = Append(@, HelpText)]
    /\ pc' = [pc EXCEPT ![h] = "done"]
    /\ UNCHANGED << msg, typing, calls, resp, answer, nextSend, err >>
    /\ UNCHANGED startVars

----------------------------------------------------------------------------
(* Specifications *)

\* A step of handler h: a message is delivered to it, or what it awaits
\* completes; the generation call ends in one of `results`.
HandlerStep(h, results) ==
    \/ \E m \in Messages : OnMessage(h, m)
    \/ UsageSent(h)
    \/ TypingStarts(h)
    \/ GenerationEnds(h, results)
    \/ ApologySent(h)
    \/ AnswerSendCompletes(h)
    \/ ErrorSent(h)
    \/ ProcessCommands(h)
    \/ HelpSent(h)

\* Concurrent handlers, each given one inbound message; the generation call
\* returns one of SampleResults.
Next ==
    \E h \in Handlers : HandlerStep(h, SampleResults)

Spec == Init /\ [][Next]_vars

\* The process from its start, in any environment: the start-up code, and
\* then the handlers of the running bot.
StartNext == Startup \/ Next

StartSpec == StartInit /\ [][StartNext]_vars

\* One handler answers one question; the generation call returns any text of
\* at most MaxTextLen characters, or one of the longer texts.
ChunkQuestion == [author |-> "user", content |-> Prefix \o << "a" >>]

ChunkNext ==
    \/ OnMessage(1, ChunkQuestion)
    \/ TypingStarts(1)
    \/ GenerationEnds(1, { Returns(t) : t \in ChunkTexts })
    \/ AnswerSendCompletes(1)
    \/ ErrorSent(1)
    \/ ProcessCommands(1)

ChunkSpec == Init /\ [][ChunkNext]_vars

----------------------------------------------------------------------------
(* Properties *)

\* Handler h has an inbound message.
Received(h) == msg[h] # << >>

\* The generation call of handler h has ended.
Generated(h) == resp[h] # << >>

\* on_message has returned for handler h, its command processing included.
Finished(h) == pc[h] = "done"

\* Handler h handles a question: a message not authored by the bot that
\* starts with the prefix and has a non-empty trimmed argument.
IsQuestion(h) ==
    /\ Received(h)
    /\ msg[h][1].author # Self
    /\ StartsWith(msg[h][1].content, Prefix)
    /\ \E i \in Len(Prefix) + 1 .. Len(msg[h][1].content) :
           msg[h][1].content[i] \notin Whitespace

\* The generation call of handler h returned a text longer than the limit.
LongAnswer(h) ==
    /\ Generated(h)
    /\ resp[h][1].parts
    /\ Len(resp[h][1].text) > MessageLimit

\* The generation call of handler h returned a text within the limit.
ShortAnswer(h) ==
    /\ Generated(h)
    /\ resp[h][1].parts
    /\ Len(resp[h][1].text) <= MessageLimit

IsAnswer(o) == o.kind = "answer"
NotHelp(o) == o.kind # "help"

\* C1: for a response text longer than the limit, every chunk of the chunk
\* list, and so every text handed to channel.send on the chunked path, is at
\* most MessageLimit characters long.
C1_ChunksWithinLimit ==
    \A h \in Handlers :
        LongAnswer(h) =>
            \A i \in 1..Len(answer[h]) : Len(answer[h][i]) <= MessageLimit

\* C2: for a response text longer than the limit, no element of the chunk
\* list is empty or whitespace-only.
C2_NoBlankChunk ==
    \A h \in Handlers :
        LongAnswer(h) =>
            \A i \in 1..Len(answer[h]) : Strip(answer[h][i]) # << >>

\* C3: when on_message has finished for a question, at least one outbound
\* message was sent for it, whatever the generation call returned.
C3_NeverSilentlyDropped ==
    \A h \in Handlers :
        (IsQuestion(h) /\ Finished(h)) => Len(sent[h]) >= 1

\* C4: the outbound messages of a finished question are exactly the answer
\* (one message, or every chunk in order), or one apology, or one error
\* message; nothing else, and no mix of these.
C4_ExactlyOneReply ==
    \A h \in Handlers :
        (IsQuestion(h) /\ Finished(h)) =>
            \/ sent[h] = [i \in 1..Len(answer[h]) |-> AnswerMessage(answer[h][i])]
            \/ sent[h] = << Apology >>
            \/ \E d \in ErrorDetails \cup {SendRejected} :
                   sent[h] = << ErrorMessage(d) >>

\* C5: a message "$question help" not authored by the bot makes no generation
\* call, and once handled its only outbound message is the help text.
C5_HelpBypassesGeneration ==
    \A h \in Handlers :
        ( /\ Received(h)
          /\ msg[h][1].author # Self
          /\ msg[h][1].content = Prefix \o HelpWord ) =>
            /\ calls[h] = << >>
            /\ Finished(h) => sent[h] = << HelpText >>

\* The outbound messages of handler h that are answer texts, and those that
\* are not the help text.
AnswersSent(h) == SelectSeq(sent[h], IsAnswer)
RepliesSent(h) == SelectSeq(sent[h], NotHelp)

\* The handler is past the sends of its try block.
PastReply(h) == pc[h] \in {"process_commands", "send_help", "done"}

\* C6: a response text of at most MessageLimit characters is the whole
\* answer, unsplit and untrimmed: it is the one text handed to channel.send,
\* and once the send has completed it is the one reply delivered.
C6_ShortAnswerVerbatim ==
    \A h \in Handlers :
        ShortAnswer(h) =>
            /\ answer[h] = << resp[h][1].text >>
            /\ pc[h] \in {"send_answer"} \cup {"process_commands", "send_help", "done"}
            /\ pc[h] = "send_answer" => sent[h] = << >>
            /\ PastReply(h) =>
                   /\ AnswersSent(h) = << AnswerMessage(resp[h][1].text) >>
                   /\ RepliesSent(h) = AnswersSent(h)

\* A text of exactly the limit that ends in whitespace was delivered as it is.
C6_Witness ==
    \E h \in Handlers :
        /\ ShortAnswer(h)
        /\ Finished(h)
        /\ Len(resp[h][1].text) = MessageLimit
        /\ resp[h][1].text[MessageLimit] = SP
        /\ resp[h][1].text[1] = NL
        /\ sent[h] = << AnswerMessage(resp[h][1].text) >>

\* C7: for a message authored by the bot itself, whatever its content,
\* on_message returns at once: nothing is sent, no generation call is made,
\* the typing indicator is never shown and no command is processed.
C7_IgnoresOwnMessages ==
    \A h \in Handlers :
        (Received(h) /\ msg[h][1].author = Self) =>
            /\ pc[h] = "done"
            /\ sent[h] = << >>
            /\ calls[h] = << >>
            /\ typing[h] = "never"
            /\ ~Generated(h)

\* Both handlers were given "$question help" and "$question a" by the bot.
C7_Witness ==
    \E h, g \in Handlers :
        /\ Received(h) /\ Received(g)
        /\ msg[h][1] = [author |-> Self, content |-> Prefix \o HelpWord]
        /\ msg[g][1] = [author |-> Self, content |-> Prefix \o << "a" >>]
        /\ Finished(h) /\ Finished(g)

\* The message of handler h starts with the prefix and has nothing but
\* whitespace after it.
EmptyQuestion(h) ==
    /\ Received(h)
    /\ msg[h][1].author # Self
    /\ StartsWith(msg[h][1].content, Prefix)
    /\ \A i \in Len(Prefix) + 1 .. Len(msg[h][1].content) :
           msg[h][1].content[i] \in Whitespace

\* C8: for a message not authored by the bot that starts with the prefix and
\* has an empty or whitespace-only remainder, the usage prompt is the one
\* outbound message, and no generation call is made.
C8_UsagePromptOnly ==
    \A h \in Handlers :
        EmptyQuestion(h) =>
            /\ pc[h] \in {"send_usage", "done"}
            /\ sent[h] = IF Finished(h) THEN << UsagePrompt >> ELSE << >>
            /\ calls[h] = << >>
            /\ typing[h] = "never"
            /\ ~Generated(h)

\* "$question   " (whitespace after the prefix) was answered by the usage
\* prompt.
C8_Witness ==
    \E h \in Handlers :
        /\ EmptyQuestion(h)
        /\ msg[h][1].content = Prefix \o << SP, SP >>
        /\ Finished(h)
        /\ sent[h] = << UsagePrompt >>

\* The generation call of handler h returned a response without parts.
BlockedResponse(h) ==
    /\ Generated(h)
    /\ ~resp[h][1].raises
    /\ ~resp[h][1].parts

\* C9: after a blocked response (no parts), with or without candidates, the
\* handler sends the apology and returns: the apology is its one outbound
\* message, no answer text is sent, and the handler ends by the return of
\* line 124, not by an exception.
C9_BlockedGetsApology ==
    \A h \in Handlers :
        BlockedResponse(h) =>
            /\ pc[h] \in {"send_apology", "done"}
            /\ sent[h] = IF Finished(h) THEN << Apology >> ELSE << >>
            /\ answer[h] = << >>
            /\ err[h] = ""

\* One handler got a blocked response with candidates, the other one without,
\* and both have sent the apology.
C9_Witness ==
    \E h, g \in Handlers :
        /\ BlockedResponse(h) /\ resp[h][1].candidates
        /\ BlockedResponse(g) /\ ~resp[g][1].candidates
        /\ Finished(h) /\ sent[h] = << Apology >>
        /\ Finished(g) /\ sent[g] = << Apology >>

\* The generation call of handler h raised.
FailedGeneration(h) == Generated(h) /\ resp[h][1].raises

\* Everything the model holds about handler h.
HandlerState(h) ==
    << pc[h], msg[h], typing[h], calls[h], resp[h], answer[h], nextSend[h],
       err[h], sent[h] >>

\* After the generation call raised, the handler is in or past the except
\* clause of line 172, and its one reply is the error message with str(e).
ErrorReported ==
    \A h \in Handlers :
        FailedGeneration(h) =>
            /\ pc[h] \in {"send_error", "process_commands", "send_help", "done"}
            /\ err[h] = resp[h][1].detail
            /\ RepliesSent(h) =
                   IF PastReply(h) THEN << ErrorMessage(resp[h][1].detail) >>
                   ELSE << >>
            /\ answer[h] = << >>

\* A step of one handler changes nothing of any other handler.
StepsOneHandler ==
    \A h, g \in Handlers :
        (h # g /\ HandlerState(h)' # HandlerState(h)) =>
            HandlerState(g)' = HandlerState(g)

\* C10: an error raised by the generation call is caught in its handler,
\* which sends one message carrying the error's description and ends without
\* an exception leaving on_message; the steps of that handler change nothing
\* of any other handler.
C10_GenerationErrorCaught == [](ErrorReported) /\ [][StepsOneHandler]_vars

\* One handler's generation call raised and it has sent the error message;
\* the other handler, whose call returned after that, has sent its answer.
C10_Witness ==
    \E h, g \in Handlers :
        /\ FailedGeneration(h) /\ Finished(h)
        /\ sent[h] = << ErrorMessage("quota") >>
        /\ ShortAnswer(g) /\ Finished(g)
        /\ sent[g] = << AnswerMessage(resp[g][1].text) >>
        /\ resp[g][1].text # << >>

\* C11: whatever the other handlers do, the chunks of a long answer are sent
\* in the order of the chunk list, one send at a time: what has been
\* delivered is the first nextSend - 1 chunks, each once, the send awaited is
\* the next one, and once the handler is past its sends every chunk has been
\* delivered.
C11_ChunksInOrder ==
    \A h \in Handlers :
        LongAnswer(h) =>
            /\ nextSend[h] - 1 <= Len(answer[h])
            /\ AnswersSent(h) =
                   [i \in 1..(nextSend[h] - 1) |-> AnswerMessage(answer[h][i])]
            /\ PastReply(h) => nextSend[h] - 1 = Len(answer[h])

\* C12: while the generation call of one handler is pending, every other
\* handler that has not finished can take its next step, whatever it is:
\* receive a message, issue its own generation call, have it return, send.
\* No handler waits for the call of another to return.
C12_NeverWaitsOnGeneration ==
    \A h, g \in Handlers :
        (h # g /\ pc[h] = "generating" /\ ~Finished(g)) =>
            ENABLED HandlerStep(g, SampleResults)

\* The call of one handler is still pending, and the other handler has been
\* given a question, made its own call and sent both chunks of its answer.
C12_Witness ==
    \E h, g \in Handlers :
        /\ h # g
        /\ pc[h] = "generating"
        /\ IsQuestion(g) /\ LongAnswer(g) /\ Finished(g)
        /\ Len(calls[g]) = 1
        /\ Len(answer[g]) = 2
        /\ sent[g] = << AnswerMessage(answer[g][1]), AnswerMessage(answer[g][2]) >>

\* One of the three things the start-up code loads is missing or unreadable.
BadEnvironment ==
    \/ env.token = "unset"
    \/ env.key = "unset"
    \/ env.prompt \in {"missing", "unreadable"}

\* C13: with TOKEN, GEMINI_API_KEY or the prompt file missing or unreadable,
\* the start-up code never reaches the creation of the model or bot.run, and
\* when it has exited it has logged an error and the status is 1; the
\* process never exits with an error after the model was created; and
\* bot.run is called only with all three loaded and the model created.
C13_FailsFastAtStartup ==
    /\ BadEnvironment =>
           /\ boot \in {"check_token", "check_key", "read_prompt", "exited"}
           /\ genModel = "none"
           /\ gateway = "none"
           /\ boot = "exited" => (exitStatus = << 1 >> /\ Len(errors) = 1)
    /\ exitStatus = << 1 >> => (genModel = "none" /\ gateway = "none")
    /\ gateway # "none" =>
           /\ env = [token |-> "set", key |-> "set", prompt |-> "readable"]
           /\ genModel = "created"

\* Both secrets are set and the prompt file cannot be read: the process has
\* exited with status 1.
C13_Witness ==
    /\ env = [token |-> "set", key |-> "set", prompt |-> "unreadable"]
    /\ boot = "exited"
    /\ exitStatus = << 1 >>
    /\ errors = << "error reading system prompt file" >>

\* The texts of chunks occur in text one after the other, the first at or
\* after position from, without overlapping.
RECURSIVE OccurInOrder(_, _, _)
OccurInOrder(text, chunks, from) ==
    IF chunks = << >>
    THEN TRUE
    ELSE \E i \in from .. Len(text) + 1 :
             /\ MatchesAt(text, Head(chunks), i)
             /\ OccurInOrder(text, Tail(chunks), i + Len(Head(chunks)))

\* C14: for a response text longer than the limit, every chunk is a
\* contiguous substring of the response text, and the chunks occur in the
\* text in the order of the chunk list, without overlapping.
C14_ChunksAreSubstrings ==
    \A h \in Handlers :
        LongAnswer(h) => OccurInOrder(resp[h][1].text, answer[h], 1)

\* The text without its whitespace characters.
NonWhitespace(text) == SelectSeq(text, LAMBDA c : c \notin Whitespace)

\* C15: for a response text longer than the limit, the chunks concatenated
\* in order have, whitespace deleted, exactly the characters of the response
\* text with its whitespace deleted: no other character is dropped,
\* duplicated or reordered, the '.' of a sentence boundary included.
C15_NoContentLost ==
    \A h \in Handlers :
        LongAnswer(h) =>
            NonWhitespace(Concat(answer[h])) = NonWhitespace(resp[h][1].text)

\* A paragraph longer than the limit was split at a '. ' boundary, and both
\* chunks were delivered.
C15_Witness ==
    \E h \in Handlers :
        /\ LongAnswer(h)
        /\ Finished(h)
        /\ resp[h][1].text = << "a", DOT, SP, "a", DOT, "a" >>
        /\ answer[h] = << << "a", DOT >>, << "a", DOT, "a" >> >>
        /\ AnswersSent(h) = << AnswerMessage(answer[h][1]), AnswerMessage(answer[h][2]) >>

\* p is a paragraph of the kind C16 is about: not empty, without leading or
\* trailing whitespace, without a double newline inside, within the limit.
PlainParagraph(p) ==
    /\ p # << >>
    /\ p[1] \notin Whitespace
    /\ p[Len(p)] \notin Whitespace
    /\ \A i \in 1 .. Len(p) - 1 : ~(p[i] = NL /\ p[i + 1] = NL)
    /\ Len(p) <= MessageLimit

\* text is a plain paragraph of n characters, a double newline, and a plain
\* paragraph.
TwoParagraphs(text, n) ==
    /\ n + 3 <= Len(text)
    /\ text[n + 1] = NL
    /\ text[n + 2] = NL
    /\ PlainParagraph(SubSeq(text, 1, n))
    /\ PlainParagraph(SubSeq(text, n + 3, Len(text)))

\* C16: a response text longer than the limit that is two plain paragraphs
\* p1 and p2, each within the limit, joined by a double newline, is split
\* into exactly the chunks p1 and p2, and these are the answers delivered.
C16_TwoParagraphsTwoChunks ==
    \A h \in Handlers :
        LongAnswer(h) =>
            \A n \in 1 .. Len(resp[h][1].text) :
                TwoParagraphs(resp[h][1].text, n) =>
                    /\ answer[h] = << SubSeq(resp[h][1].text, 1, n),
                                      SubSeq(resp[h][1].text, n + 3, Len(resp[h][1].text)) >>
                    /\ PastReply(h) =>
                           AnswersSent(h) = << AnswerMessage(answer[h][1]),
                                               AnswerMessage(answer[h][2]) >>

\* Two paragraphs of the limit's length each were delivered as two answers.
C16_Witness ==
    \E h \in Handlers :
        /\ LongAnswer(h)
        /\ Finished(h)
        /\ TwoParagraphs(resp[h][1].text, MessageLimit)
        /\ Len(resp[h][1].text) = 2 * MessageLimit + 2
        /\ sent[h] = << AnswerMessage(Rep("a", MessageLimit)),
                        AnswerMessage(Rep("a", MessageLimit)) >>

\* Position i of a paragraph ends a fragment: a line break, or the space of
\* a '. ' boundary.
EndsFragment(para, i) ==
    \/ para[i] = NL
    \/ para[i] = SP /\ i > 1 /\ para[i - 1] = DOT

\* The fragments of a paragraph: its maximal runs without a line break and
\* without a '. ' boundary, the '.' of a boundary staying with its run.
RECURSIVE FragmentsFrom(_, _, _)
FragmentsFrom(para, start, i) ==
    IF i > Len(para)
    THEN << SubSeq(para, start, Len(para)) >>
    ELSE IF EndsFragment(para, i)
         THEN << SubSeq(para, start, i - 1) >> \o FragmentsFrom(para, i + 1, i + 1)
         ELSE FragmentsFrom(para, start, i + 1)

\* The fragments of the paragraphs of a text that are longer than the limit,
\* in the order of the text.
RECURSIVE FragmentsOf(_)
FragmentsOf(paragraphs) ==
    IF paragraphs = << >>
    THEN << >>
    ELSE (IF Len(Head(paragraphs)) > MessageLimit
          THEN FragmentsFrom(Head(paragraphs), 1, 1)
          ELSE << >>) \o FragmentsOf(Tail(paragraphs))

NotEmpty(text) == text # << >>

Fragments(text) == SelectSeq(FragmentsOf(Split(text, << NL, NL >>)), NotEmpty)

TrimmedFragments(text) ==
    SelectSeq([i \in 1 .. Len(FragmentsOf(Split(text, << NL, NL >>))) |->
                   Strip(FragmentsOf(Split(text, << NL, NL >>))[i])],
              NotEmpty)

\* Each of frags is held whole by one of chunks: the fragments occur in the
\* chunks in order, each inside a single chunk, without overlapping.
RECURSIVE HeldWhole(_, _)
HeldWhole(frags, chunks) ==
    IF frags = << >> THEN TRUE
    ELSE IF chunks = << >> THEN FALSE
    ELSE \/ \E i \in 1 .. Len(Head(chunks)) :
                /\ MatchesAt(Head(chunks), Head(frags), i)
                /\ HeldWhole(Tail(frags),
                             << SubSeq(Head(chunks), i + Len(Head(frags)),
                                       Len(Head(chunks))) >> \o Tail(chunks))
         \/ HeldWhole(frags, Tail(chunks))

\* Every fragment longer than the limit is a chunk by itself.
LongFragmentsAlone(frags, chunks) ==
    \A k \in 1 .. Len(frags) :
        Len(frags[k]) > MessageLimit =>
            \E j \in 1 .. Len(chunks) : chunks[j] = frags[k]

C18_OneGenerationCall ==
    \A h \in Handlers :
        /\ Len(calls[h]) <= 1
        /\ calls[h] # << >> => IsQuestion(h)
        /\ Generated(h) => Len(calls[h]) = 1
        /\ pc[h] \in {"typing", "generating"} => sent[h] = << >>
        /\ (AnswersSent(h) # << >> \/ pc[h] = "send_answer") =>
               (Generated(h) /\ resp[h][1].parts)

\* One handler's call raised and the other's returned a blocked response;
\* both handlers have ended, each with its one call and its one message.
C18_Witness ==
    \E h, g \in Handlers :
        /\ FailedGeneration(h) /\ Finished(h)
        /\ BlockedResponse(g) /\ Finished(g)
        /\ Len(calls[h]) = 1 /\ Len(calls[g]) = 1
        /\ Len(sent[h]) = 1 /\ sent[g] = << Apology >>

\* What is delivered of a list of answer texts: the texts in order up to the
\* first one the transport refuses, for which the error message is sent.
RECURSIVE AnswerReplies(_)
AnswerReplies(texts) ==
    IF texts = << >> THEN << >>
    ELSE IF TransportAccepts(Head(texts))
         THEN << AnswerMessage(Head(texts)) >> \o AnswerReplies(Tail(texts))
         ELSE << ErrorMessage(SendRejected) >>

HelpReply(m) ==
    IF ~IsBot(m.author) /\ InvokesHelp(m.content) THEN << HelpText >> ELSE << >>

\* The messages sent for the inbound message m when the generation call, if
\* one is made, ends with r[1]: a function of m and r alone.
RepliesTo(m, r) ==
    IF m.author = Self THEN << >>
    ELSE IF ~StartsWith(m.content, Prefix) THEN HelpReply(m)
    ELSE IF Question(m.content) = << >> THEN << UsagePrompt >>
    ELSE IF r[1].raises THEN << ErrorMessage(r[1].detail) >> \o HelpReply(m)
    ELSE IF ~r[1].parts THEN << Apology >>
    ELSE AnswerReplies(FormatResponse(r[1].text)) \o HelpReply(m)

\* Every generation call carries the handler's own question and an empty
\* history, and what a handler has sent when it ends is RepliesTo of its own
\* message and its own generation result.
StatelessExchange ==
    \A h \in Handlers :
        /\ \A k \in 1 .. Len(calls[h]) :
               calls[h][k] = [question |-> Question(msg[h][1].content),
                              history |-> << >>]
        /\ Finished(h) =>
               /\ IsQuestion(h) => Generated(h)
               /\ sent[h] = RepliesTo(msg[h][1], resp[h])

\* C19: every generation call is made on a chat with an empty history; the
\* steps of a handler change nothing of another handler; and the messages a
\* handler sends are determined by its own message and its own generation
\* result, whatever the other handler was asked, before or meanwhile.
C19_Stateless == [](StatelessExchange) /\ [][StepsOneHandler]_vars

\* Two handlers were asked different questions: one call returned a short
\* text, which was delivered, and the other raised, which was reported
\* before the help text.
C19_Witness ==
    \E h, g \in Handlers :
        /\ Finished(h) /\ Finished(g)
        /\ calls[h] = << [question |-> << "a" >>, history |-> << >>] >>
        /\ calls[g] = << [question |-> HelpWord \o << SP, "a" >>, history |-> << >>] >>
        /\ resp[h] = << Returns(<< "a" >>) >>
        /\ sent[h] = << AnswerMessage(<< "a" >>) >>
        /\ FailedGeneration(g)
        /\ sent[g] = << ErrorMessage(resp[g][1].detail), HelpText >>

====
